---- MODULE Spec2Model ----
(***************************************************************************)
(* Model of llmserver-rust: the SimpleRkLLM worker actor                   *)
(* (src/src/llm/simple.rs), its callback-to-stream bridge                  *)
(* CallbackSendSelfChannel, and the startup / shutdown sequence of main    *)
(* (src/src/main.rs).                                                      *)
(*                                                                         *)
(* Four next-state relations share the variables:                          *)
(*   SpecBridge  one inference call and its 64-slot channel;               *)
(*   SpecWorker  worker actors driven by arbitrary holders of their        *)
(*               Recipient (process and shutdown messages in any order);   *)
(*   SpecStreams concurrent requests, their engine calls and consumers;    *)
(*   SpecMain    main(): instance loop, serving, shutdown coordinator.     *)
(*                                                                         *)
(* The engine (rkllm_rs) and the runtime (actix, tokio) are outside the    *)
(* repository.  What the source does not decide about them is left         *)
(* nondeterministic: the order and kind of callbacks of a run, when a      *)
(* spawned run is polled, whether the callback object moved into           *)
(* handle.run is dropped when the call returns, and the effect of using a  *)
(* destroyed native handle.                                                *)
(*                                                                         *)
(* Model types.  main() starts workers of one type, LLM or ASR, chosen by  *)
(* determine_model_type (src/src/huggingface.rs).  The ASR actor and the   *)
(* two HTTP routes are outside src/: of the ASR actor the model has its    *)
(* registration, which main() does, and its shutdown; audio requests are   *)
(* not modelled.  A chat request may go to any registered LLM worker: how  *)
(* the route selects among them is not decided by the code under src/.     *)
(*                                                                         *)
(* Threads.  main(), the worker actors it starts and the tasks their       *)
(* handlers spawn with actix_web::rt::spawn all run on one thread.  The    *)
(* spawned task calls handle.run synchronously and has no await point, so  *)
(* from the entry of an engine call to its return (callbacks and the       *)
(* try_send retry loop included) no handler, no other spawned call and no  *)
(* continuation of main() runs.  The HTTP workers, which send the requests *)
(* and consume the streams, run on threads of their own.                   *)
(***************************************************************************)
EXTENDS Naturals, Sequences, FiniteSets

\* tokio::sync::mpsc::channel(64)
ChannelCapacity == 64

\* Bounds of SpecBridge: Normal callbacks with a payload while the sender is
\* held, and callbacks that deliver nothing, per run.
BridgeFragments == 65
BridgeQuiet == 2

\* Bounds of SpecWorker.
NumWorkers == 2
MaxRequests == 2
MaxFragments == 1
MaxShutdowns == 1

\* Bounds of SpecMain.  MaxInstances bounds the worker ids the actions of
\* SpecMain range over; num_instances itself is 1 in every run (ParseArgs).
\* Each run of SpecMain issues up to MaxFragments fragments and a Finish;
\* callbacks that deliver nothing are the subject of SpecBridge, several
\* requests at once that of SpecWorker and SpecStreams.
MaxInstances == 2
MainRequests == 1

Max(a, b) == IF a > b THEN a ELSE b

Workers == 1..Max(NumWorkers, MaxInstances)
Requests == 1..Max(MaxRequests, MainRequests)

VARIABLES
    phase,        \* position of main()
    instances,    \* num_instances
    registry,     \* llm_recipients[model_name] : Seq of worker ids
    shutdownList, \* shutdown_recipients : Seq of worker ids
    sdNext,       \* index of the next shutdown future join_all polls first
    acked,        \* workers whose shutdown future has resolved
    think,        \* SimpleLLMConfig.think of the loaded model
    modelType,    \* model_type ("none" before it is determined, "LLM", "ASR")
    audio,        \* audio_recipients[model_name] : Seq of worker ids
    handle,       \* per worker: SimpleRkLLM.handle ("none","loaded","destroyed")
    destroyCalls, \* per worker: number of handle.destroy() calls
    mailbox,      \* per worker: the actor's mailbox (FIFO of messages)
    sdSent,       \* per worker: ShutdownMessages sent to it so far
    target,       \* per request: worker it was sent to (0 before)
    reply,        \* per request: result of Handler<ProcessMessages> ("none","Ok","Err")
    template,     \* per request: result of apply_chat_template ("none","Ok","Err")
    prompt,       \* per request: the input moved into handle.run
    run,          \* per request: the spawned engine call
    tx,           \* per request: CallbackSendSelfChannel.sender / the channel's Sender
    rx,           \* per request: the channel's Receiver, held by the consumer
    buf,          \* per request: fragments queued in the channel
    read,         \* per request: fragments the consumer has received
    eos,          \* per request: the consumer has received end-of-stream
    nNormal,      \* per request: Normal callbacks with a payload issued before the first Finish
    late,         \* per request: Normal callbacks with a payload issued after it
    quiet,        \* per request: callbacks issued that deliver nothing
    errored,      \* per request: an Error callback was issued
    finished,     \* per request: a Finish callback was issued
    crashed       \* the process died in native code

vars == <<phase, instances, registry, shutdownList, sdNext, acked,
          think, modelType, audio, handle, destroyCalls, mailbox, sdSent, target, reply, template,
          prompt, run, tx, rx, buf, read, eos, nNormal, late, quiet, errored,
          finished, crashed>>

mainVars == <<phase, instances, registry, shutdownList, sdNext, acked, think,
              modelType, audio>>
workerVars == <<handle, destroyCalls, mailbox, sdSent>>
requestVars == <<target, reply, template, prompt>>
streamVars == <<run, tx, rx, buf, read, eos, nNormal, late, quiet, errored, finished>>

---------------------------------------------------------------------------
\* Messages of the actor mailbox.
ProcessMsg(r) == [kind |-> "Process", req |-> r]
ShutdownMsg == [kind |-> "Shutdown", req |-> 0]

\* The payload of the k-th Normal callback of the run of request r is
\* <<r, k>>: fragments are pairwise distinct within a run and across runs, so
\* loss, duplication, reordering and delivery to another stream are visible.
Fragment(r, k) == <<r, k>>

\* The first n fragments of the run of request r, in order.
Upto(r, n) == [i \in 1..n |-> Fragment(r, i)]

\* The engine call of request r has been entered and has not returned.
InFlight(r) == run[r] \in {"running", "sending"}

\* Engine calls in flight on the handle of worker w.
RunsOn(w) == {r \in Requests : target[r] = w /\ InFlight(r)}

\* The thread of main() and of the actors is not inside an engine call.
ThreadIdle == \A r \in Requests : ~InFlight(r)

\* The worker ids main() has started so far are 1..Started.
Started == Len(registry) + Len(audio)

\* Worker w is an ASR actor.
IsASR(w) == \E i \in 1..Len(audio) : audio[i] = w

\* The workers registered for requests, of both pools.
Pool == registry \o audio

\* The process is running (main has not returned or panicked, and native
\* code has not killed it).
Alive == ~crashed /\ phase \in {"start", "init", "serving", "draining"}

---------------------------------------------------------------------------
\* State shared by the three initial conditions: no request sent yet.
InitRequests ==
    /\ target = [r \in Requests |-> 0]
    /\ reply = [r \in Requests |-> "none"]
    /\ template = [r \in Requests |-> "none"]
    /\ prompt = [r \in Requests |-> <<>>]
    /\ run = [r \in Requests |-> "none"]
    /\ tx = [r \in Requests |-> "absent"]
    /\ rx = [r \in Requests |-> "absent"]
    /\ buf = [r \in Requests |-> <<>>]
    /\ read = [r \in Requests |-> <<>>]
    /\ eos = [r \in Requests |-> FALSE]
    /\ nNormal = [r \in Requests |-> 0]
    /\ late = [r \in Requests |-> 0]
    /\ quiet = [r \in Requests |-> 0]
    /\ errored = [r \in Requests |-> FALSE]
    /\ finished = [r \in Requests |-> FALSE]
    /\ crashed = FALSE

\* Workers 1..n initialised, started and registered; the server is serving.
\* The config all instances were loaded from has its think flag in thinks.
InitServing(n, thinks) ==
    /\ phase = "serving"
    /\ instances = n
    /\ registry = [i \in 1..n |-> i]
    /\ shutdownList = [i \in 1..n |-> i]
    /\ sdNext = 1
    /\ acked = {}
    /\ think \in thinks
    /\ modelType = "LLM"
    /\ audio = <<>>
    /\ handle = [w \in Workers |-> IF w <= n THEN "loaded" ELSE "none"]
    /\ destroyCalls = [w \in Workers |-> 0]
    /\ mailbox = [w \in Workers |-> <<>>]
    /\ sdSent = [w \in Workers |-> 0]
    /\ InitRequests

---------------------------------------------------------------------------
\* A holder of Recipient<ProcessMessages> sends request r to worker w.
\* Requests are numbered in the order they are sent.
SendProcess(r, w) ==
    /\ Alive
    /\ phase = "serving"
    /\ target[r] = 0
    /\ \A q \in Requests : q < r => target[q] # 0
    /\ handle[w] # "none"
    /\ target' = [target EXCEPT ![r] = w]
    /\ mailbox' = [mailbox EXCEPT ![w] = Append(@, ProcessMsg(r))]
    /\ UNCHANGED <<mainVars, handle, destroyCalls, sdSent, reply, template, prompt,
                   streamVars, crashed>>

\* Strings are sequences of pieces: the text apply_chat_template renders
\* and the marker "\n\n</think>\n\n".
Rendered == <<"chat">>
StopThinking == <<"</think>">>

\* The input of the engine call: the rendered template, or "" when
\* apply_chat_template returns Err, followed by the marker unless
\* config.think is set.
build_input(outcome, thinkCfg) ==
    LET input == IF outcome = "Ok" THEN Rendered ELSE <<>>
    IN  IF ~thinkCfg THEN input \o StopThinking ELSE input

\* A handler that answers Err and starts nothing when apply_chat_template
\* fails.
ProcessMessages_handle_abort(w, outcomes) ==
    /\ Alive
    /\ ThreadIdle
    /\ mailbox[w] # <<>>
    /\ Head(mailbox[w]).kind = "Process"
    /\ \E outcome \in outcomes :
        LET r == Head(mailbox[w]).req IN
        /\ mailbox' = [mailbox EXCEPT ![w] = Tail(@)]
        /\ template' = [template EXCEPT ![r] = outcome]
        /\ IF outcome = "Ok"
              THEN /\ prompt' = [prompt EXCEPT ![r] = build_input(outcome, think)]
                   /\ tx' = [tx EXCEPT ![r] = "held"]
                   /\ rx' = [rx EXCEPT ![r] = "open"]
                   /\ run' = [run EXCEPT ![r] = "spawned"]
                   /\ reply' = [reply EXCEPT ![r] = "Ok"]
              ELSE /\ reply' = [reply EXCEPT ![r] = "Err"]
                   /\ UNCHANGED <<prompt, tx, rx, run>>
    /\ UNCHANGED <<mainVars, handle, destroyCalls, sdSent, target, buf, read, eos,
                   nNormal, late, quiet, errored, finished, crashed>>

\* A handler that calls handle.run itself and returns once the engine has
\* signalled Finish.
ProcessMessages_handle_inline(w, outcomes) ==
    /\ Alive
    /\ ThreadIdle
    /\ mailbox[w] # <<>>
    /\ Head(mailbox[w]).kind = "Process"
    /\ \E outcome \in outcomes :
        LET r == Head(mailbox[w]).req IN
        /\ mailbox' = [mailbox EXCEPT ![w] = Tail(@)]
        /\ template' = [template EXCEPT ![r] = outcome]
        /\ prompt' = [prompt EXCEPT ![r] = build_input(outcome, think)]
        /\ tx' = [tx EXCEPT ![r] = "taken"]
        /\ rx' = [rx EXCEPT ![r] = "open"]
        /\ run' = [run EXCEPT ![r] = "returned"]
        /\ finished' = [finished EXCEPT ![r] = TRUE]
        /\ reply' = [reply EXCEPT ![r] = "Ok"]
    /\ UNCHANGED <<mainVars, handle, destroyCalls, sdSent, target, buf, read, eos,
                   nNormal, late, quiet, errored, crashed>>

\* Handler<ProcessMessages>::handle: creates the channel, builds the input,
\* spawns the engine call on a clone of the handle, and returns Ok(stream).
\* Nothing in it reads the state of the handle or of earlier runs; like
\* every handler it runs only when its thread is not inside an engine call.
\* outcomes: the results apply_chat_template can have on the messages sent.
ProcessMessages_handle(w, outcomes) ==
    /\ Alive
    /\ ThreadIdle
    /\ mailbox[w] # <<>>
    /\ Head(mailbox[w]).kind = "Process"
    /\ \E outcome \in outcomes :
        LET r == Head(mailbox[w]).req IN
        /\ mailbox' = [mailbox EXCEPT ![w] = Tail(@)]
        /\ template' = [template EXCEPT ![r] = outcome]
        /\ prompt' = [prompt EXCEPT ![r] = build_input(outcome, think)]
        /\ tx' = [tx EXCEPT ![r] = "held"]
        /\ rx' = [rx EXCEPT ![r] = "open"]
        /\ run' = [run EXCEPT ![r] = "spawned"]
        /\ reply' = [reply EXCEPT ![r] = "Ok"]
    /\ UNCHANGED <<mainVars, handle, destroyCalls, sdSent, target, buf, read, eos,
                   nNormal, late, quiet, errored, finished, crashed>>

\* Handler<ShutdownMessages>::handle: destroys the handle, returns Ok(()).
ShutdownMessages_handle(w) ==
    /\ Alive
    /\ ThreadIdle
    /\ ~IsASR(w)
    /\ mailbox[w] # <<>>
    /\ Head(mailbox[w]).kind = "Shutdown"
    /\ mailbox' = [mailbox EXCEPT ![w] = Tail(@)]
    /\ handle' = [handle EXCEPT ![w] = "destroyed"]
    /\ destroyCalls' = [destroyCalls EXCEPT ![w] = @ + 1]
    /\ acked' = IF phase = "draining" THEN acked \cup {w} ELSE acked
    /\ UNCHANGED <<phase, think, modelType, audio, instances, registry, shutdownList, sdNext, sdSent,
                   requestVars, streamVars, crashed>>

\* Handler<ShutdownMessages> of the ASR worker: as that of the LLM worker,
\* it releases the worker's engine and answers.
SimpleASR_ShutdownMessages_handle(w) ==
    /\ Alive
    /\ ThreadIdle
    /\ IsASR(w)
    /\ mailbox[w] # <<>>
    /\ Head(mailbox[w]).kind = "Shutdown"
    /\ mailbox' = [mailbox EXCEPT ![w] = Tail(@)]
    /\ handle' = [handle EXCEPT ![w] = "destroyed"]
    /\ destroyCalls' = [destroyCalls EXCEPT ![w] = @ + 1]
    /\ acked' = IF phase = "draining" THEN acked \cup {w} ELSE acked
    /\ UNCHANGED <<phase, think, modelType, audio, instances, registry, shutdownList,
                   sdNext, sdSent, requestVars, streamVars, crashed>>

\* A holder of Recipient<ShutdownMessages> sends a shutdown to worker w.
SendShutdown(w) ==
    /\ Alive
    /\ handle[w] # "none"
    /\ sdSent[w] < MaxShutdowns
    /\ sdSent' = [sdSent EXCEPT ![w] = @ + 1]
    /\ mailbox' = [mailbox EXCEPT ![w] = Append(@, ShutdownMsg)]
    /\ UNCHANGED <<mainVars, handle, destroyCalls, requestVars, streamVars, crashed>>

---------------------------------------------------------------------------
\* An engine call started on a thread of its own, whatever the others do.
RunStart_detached(r) ==
    /\ Alive
    /\ run[r] = "spawned"
    /\ run' = [run EXCEPT ![r] = "running"]
    /\ UNCHANGED <<mainVars, workerVars, requestVars, tx, rx, buf, read, eos,
                   nNormal, late, quiet, errored, finished, crashed>>

\* The spawned task is polled: handle.run(Prompt(input), params, cb) is
\* entered.  The task is polled by the thread the handler ran on, which
\* stays inside the call until it returns.
RunStart(r) ==
    /\ Alive
    /\ ThreadIdle
    /\ run[r] = "spawned"
    /\ run' = [run EXCEPT ![r] = "running"]
    /\ UNCHANGED <<mainVars, workerVars, requestVars, tx, rx, buf, read, eos,
                   nNormal, late, quiet, errored, finished, crashed>>

\* A channel that queues at the front.
try_send_front(b, rcv, text) ==
    IF rcv = "open" /\ Len(b) < ChannelCapacity THEN <<text>> \o b ELSE b

\* A channel without a capacity.
try_send_unbounded(b, rcv, text) ==
    IF rcv = "open" THEN Append(b, text) ELSE b

\* sender.try_send(text) on the channel (buffer b, receiver state rcv):
\* the buffer after the call; unchanged when the call returns Err (Full or Closed).
try_send(b, rcv, text) ==
    IF rcv = "open" /\ Len(b) < ChannelCapacity THEN Append(b, text) ELSE b

\* try_send(...).is_err()
try_send_is_err(b, rcv) == ~(rcv = "open" /\ Len(b) < ChannelCapacity)

\* Number of Normal callbacks with a payload issued so far in the run of r;
\* while one is executing, it is the index of its fragment.
Issued(r) == nNormal[r] + late[r]

\* CallbackSendSelfChannel::handle, LLMCallState::Normal with Some(result):
\* with a sender, enters the delivery loop for the fragment; without one
\* (after Finish) the callback returns at once and the fragment is gone.
CallbackNormal(r, maxFrag, maxQuiet) ==
    /\ Alive
    /\ run[r] = "running"
    /\ IF finished[r]
          THEN /\ quiet[r] < maxQuiet
               /\ late' = [late EXCEPT ![r] = @ + 1]
               /\ quiet' = [quiet EXCEPT ![r] = @ + 1]
               /\ UNCHANGED nNormal
          ELSE /\ nNormal[r] < maxFrag
               /\ nNormal' = [nNormal EXCEPT ![r] = @ + 1]
               /\ UNCHANGED <<late, quiet>>
    /\ run' = [run EXCEPT ![r] = IF tx[r] = "held" THEN "sending" ELSE "running"]
    /\ UNCHANGED <<mainVars, workerVars, requestVars, tx, rx, buf, read, eos,
                   errored, finished, crashed>>

\* A delivery that tries once and returns whatever try_send answered.
DeliveryOnce(r) ==
    /\ Alive
    /\ run[r] = "sending"
    /\ buf' = [buf EXCEPT ![r] = try_send(@, rx[r], Fragment(r, Issued(r)))]
    /\ run' = [run EXCEPT ![r] = "running"]
    /\ UNCHANGED <<mainVars, workerVars, requestVars, tx, rx, read, eos,
                   nNormal, late, quiet, errored, finished, crashed>>

\* A delivery through one channel shared by all requests (that of the
\* first request).
DeliveryShared(r) ==
    /\ Alive
    /\ run[r] = "sending"
    /\ buf' = [buf EXCEPT ![1] = try_send(@, rx[1], Fragment(r, Issued(r)))]
    /\ run' = [run EXCEPT ![r] =
                  IF try_send_is_err(buf[1], rx[1]) THEN "sending" ELSE "running"]
    /\ UNCHANGED <<mainVars, workerVars, requestVars, tx, rx, read, eos,
                   nNormal, late, quiet, errored, finished, crashed>>

\* One iteration of `while sender.try_send(result.text.clone()).is_err()
\* { yield_now() }`: on Ok the loop ends and the callback returns; on Err
\* (channel full, or receiver dropped) the loop goes round again.
DeliveryLoop(r) ==
    /\ Alive
    /\ run[r] = "sending"
    /\ buf' = [buf EXCEPT ![r] = try_send(@, rx[r], Fragment(r, Issued(r)))]
    /\ run' = [run EXCEPT ![r] =
                  IF try_send_is_err(buf[r], rx[r]) THEN "sending" ELSE "running"]
    /\ UNCHANGED <<mainVars, workerVars, requestVars, tx, rx, read, eos,
                   nNormal, late, quiet, errored, finished, crashed>>

\* A callback without payload that gives up the sender as Finish does.
CallbackNoFragment_closing(r, maxQuiet) ==
    /\ Alive
    /\ run[r] = "running"
    /\ quiet[r] < maxQuiet
    /\ quiet' = [quiet EXCEPT ![r] = @ + 1]
    /\ tx' = [tx EXCEPT ![r] = IF @ = "held" THEN "taken" ELSE @]
    /\ UNCHANGED <<mainVars, workerVars, requestVars, run, rx, buf, read, eos,
                   nNormal, late, errored, finished, crashed>>

\* LLMCallState::Normal with result None, LLMCallState::Waiting and
\* LLMCallState::GetLastHiddenLayer: nothing happens.
CallbackNoFragment(r, maxQuiet) ==
    /\ Alive
    /\ run[r] = "running"
    /\ quiet[r] < maxQuiet
    /\ quiet' = [quiet EXCEPT ![r] = @ + 1]
    /\ UNCHANGED <<mainVars, workerVars, requestVars, run, tx, rx, buf, read, eos,
                   nNormal, late, errored, finished, crashed>>

\* LLMCallState::Error => {}
CallbackError(r, maxQuiet) ==
    /\ Alive
    /\ run[r] = "running"
    /\ quiet[r] < maxQuiet
    /\ quiet' = [quiet EXCEPT ![r] = @ + 1]
    /\ errored' = [errored EXCEPT ![r] = TRUE]
    /\ UNCHANGED <<mainVars, workerVars, requestVars, run, tx, rx, buf, read, eos,
                   nNormal, late, finished, crashed>>

\* A Finish arm that leaves the sender in place.
sender_keep(t) == t

\* self.sender.take(): the sender field after the Finish callback.
sender_take(t) == IF t = "held" THEN "taken" ELSE t

\* LLMCallState::Finish => drop(self.sender.take())
CallbackFinish(r, maxQuiet) ==
    /\ Alive
    /\ run[r] = "running"
    /\ IF finished[r]
          THEN /\ quiet[r] < maxQuiet
               /\ quiet' = [quiet EXCEPT ![r] = @ + 1]
          ELSE UNCHANGED quiet
    /\ finished' = [finished EXCEPT ![r] = TRUE]
    /\ tx' = [tx EXCEPT ![r] = sender_take(@)]
    /\ UNCHANGED <<mainVars, workerVars, requestVars, run, rx, buf, read, eos,
                   nNormal, late, errored, crashed>>

\* handle.run returns and the spawned task ends.  cb was moved into the
\* call: the engine binding either drops it (dropping a sender it still
\* holds) or keeps it alive.
RunReturn(r) ==
    /\ Alive
    /\ run[r] = "running"
    /\ run' = [run EXCEPT ![r] = "returned"]
    /\ \E dropped \in BOOLEAN :
          tx' = [tx EXCEPT ![r] = IF dropped /\ @ = "held" THEN "dropped" ELSE @]
    /\ UNCHANGED <<mainVars, workerVars, requestVars, rx, buf, read, eos,
                   nNormal, late, quiet, errored, finished, crashed>>

---------------------------------------------------------------------------
\* A receiver that reports end-of-stream as soon as no sender is left.
poll_next_eager(b, t) ==
    IF t \in {"taken", "dropped"} THEN "End"
    ELSE IF b # <<>> THEN "Item"
    ELSE "Pending"

\* ReceiverStream::poll_next on buffer b with sender state t: the next
\* queued fragment, end-of-stream once the queue is empty and no sender is
\* left, and otherwise pending.
poll_next(b, t) ==
    IF b # <<>> THEN "Item"
    ELSE IF t \in {"taken", "dropped"} THEN "End"
    ELSE "Pending"

\* The consumer polls the stream it got from process and gets an item or
\* end-of-stream.
StreamNext(r) ==
    /\ Alive
    /\ rx[r] = "open"
    /\ ~eos[r]
    /\ poll_next(buf[r], tx[r]) # "Pending"
    /\ IF poll_next(buf[r], tx[r]) = "Item"
          THEN /\ read' = [read EXCEPT ![r] = Append(@, Head(buf[r]))]
               /\ buf' = [buf EXCEPT ![r] = Tail(@)]
               /\ UNCHANGED eos
          ELSE /\ eos' = [eos EXCEPT ![r] = TRUE]
               /\ UNCHANGED <<read, buf>>
    /\ UNCHANGED <<mainVars, workerVars, requestVars, run, tx, rx,
                   nNormal, late, quiet, errored, finished, crashed>>

\* The consumer goes away (HTTP client disconnect): the stream, and with
\* it the Receiver, is dropped; queued fragments are discarded.
StreamDrop(r) ==
    /\ Alive
    /\ rx[r] = "open"
    /\ ~eos[r]
    /\ rx' = [rx EXCEPT ![r] = "dropped"]
    /\ buf' = [buf EXCEPT ![r] = <<>>]
    /\ UNCHANGED <<mainVars, workerVars, requestVars, run, tx, read, eos,
                   nNormal, late, quiet, errored, finished, crashed>>

---------------------------------------------------------------------------
\* The native handle is used in a way the engine does not define: a run on
\* a destroyed handle, two runs on one handle at once, or a second destroy.
NativeMisuse(w) ==
    \/ handle[w] = "destroyed" /\ RunsOn(w) # {}
    \/ Cardinality(RunsOn(w)) > 1
    \/ destroyCalls[w] > 1

\* One outcome of such a use: the process dies in native code.  The other
\* outcome, carrying on, is every other action.
NativeFault(w) ==
    /\ Alive
    /\ NativeMisuse(w)
    /\ crashed' = TRUE
    /\ UNCHANGED <<mainVars, workerVars, requestVars, streamVars>>

---------------------------------------------------------------------------
\* determine_model_type(model_id).  A model id is given by the set of the
\* keywords its lower-cased text contains.  The result is never None.
determine_model_type(model_id) ==
    IF "llm" \in model_id \/ "gpt" \in model_id THEN "LLM"
    ELSE IF "voice" \in model_id \/ "asr" \in model_id THEN "ASR"
    ELSE "LLM"

\* The model ids of the command line.
ModelIds == SUBSET {"llm", "gpt", "voice", "asr"}

\* main() up to the instance loops.  num_instances starts as 1.  When -i is
\* given, matches.get_one::<usize>("instances") panics, because the argument
\* is defined without a value parser and holds a String; the assignment to
\* num_instances is never reached.  Then the model is looked up (main panics
\* when check_model_exists answers false), its type is determined, and the
\* config file is created when it is missing (an error of create_config_file
\* is returned by `?`).
ParseArgs(given, lookup, model_id) ==
    /\ Alive
    /\ phase = "start"
    /\ phase' = IF given THEN "panicked_args"
                ELSE IF lookup = "NoModel" THEN "panicked_lookup"
                ELSE IF lookup = "ConfigErr" THEN "failed"
                ELSE "init"
    /\ modelType' = IF given \/ lookup = "NoModel" THEN modelType
                    ELSE determine_model_type(model_id)
    /\ UNCHANGED <<think, audio, instances, registry, shutdownList, sdNext, acked,
                   workerVars, requestVars, streamVars, crashed>>

\* An instance loop that registers the worker whatever init returned.
InitInstance_lenient(outcome) ==
    /\ Alive
    /\ ThreadIdle
    /\ phase = "init"
    /\ modelType = "LLM"
    /\ Started < instances
    /\ LET w == Started + 1 IN
        CASE outcome = "Ok" ->
                /\ handle' = [handle EXCEPT ![w] = "loaded"]
                /\ registry' = Append(registry, w)
                /\ shutdownList' = Append(shutdownList, w)
                /\ UNCHANGED phase
          [] outcome = "InitErr" ->
                /\ registry' = Append(registry, w)
                /\ shutdownList' = Append(shutdownList, w)
                /\ UNCHANGED <<handle, phase>>
          [] outcome = "ConfigErr" ->
                /\ phase' = "failed"
                /\ UNCHANGED <<handle, registry, shutdownList>>
          [] outcome = "NoConfig" ->
                /\ phase' = "panicked_config"
                /\ UNCHANGED <<handle, registry, shutdownList>>
    /\ UNCHANGED <<think, modelType, audio, instances, sdNext, acked, destroyCalls, mailbox, sdSent,
                   requestVars, streamVars, crashed>>

\* An instance loop that registers the worker for requests but not for
\* shutdown.
InitInstance_unlisted(outcome) ==
    /\ Alive
    /\ ThreadIdle
    /\ phase = "init"
    /\ modelType = "LLM"
    /\ Started < instances
    /\ LET w == Started + 1 IN
        CASE outcome = "Ok" ->
                /\ handle' = [handle EXCEPT ![w] = "loaded"]
                /\ registry' = Append(registry, w)
                /\ UNCHANGED <<phase, shutdownList>>
          [] outcome = "InitErr" ->
                /\ phase' = "panicked"
                /\ UNCHANGED <<handle, registry, shutdownList>>
          [] outcome = "ConfigErr" ->
                /\ phase' = "failed"
                /\ UNCHANGED <<handle, registry, shutdownList>>
          [] outcome = "NoConfig" ->
                /\ phase' = "panicked_config"
                /\ UNCHANGED <<handle, registry, shutdownList>>
    /\ UNCHANGED <<think, modelType, audio, instances, sdNext, acked, destroyCalls, mailbox, sdSent,
                   requestVars, streamVars, crashed>>

\* main(), ModelType::LLM: one iteration of `for _ in 0..num_instances`.
\* The config is read and SimpleRkLLM::init is called; on Ok the actor is
\* started and its address pushed to llm_recipients[model_name] and to
\* shutdown_recipients; on Err main panics; a config file that cannot be
\* opened makes main panic, one that does not deserialize makes main return
\* the error.
InitInstance(outcome) ==
    /\ Alive
    /\ ThreadIdle
    /\ phase = "init"
    /\ modelType = "LLM"
    /\ Started < instances
    /\ LET w == Started + 1 IN
        CASE outcome = "Ok" ->
                /\ handle' = [handle EXCEPT ![w] = "loaded"]
                /\ registry' = Append(registry, w)
                /\ shutdownList' = Append(shutdownList, w)
                /\ UNCHANGED phase
          [] outcome = "InitErr" ->
                /\ phase' = "panicked"
                /\ UNCHANGED <<handle, registry, shutdownList>>
          [] outcome = "ConfigErr" ->
                /\ phase' = "failed"
                /\ UNCHANGED <<handle, registry, shutdownList>>
          [] outcome = "NoConfig" ->
                /\ phase' = "panicked_config"
                /\ UNCHANGED <<handle, registry, shutdownList>>
    /\ UNCHANGED <<think, modelType, audio, instances, sdNext, acked, destroyCalls, mailbox, sdSent,
                   requestVars, streamVars, crashed>>

\* main(), ModelType::ASR: one iteration of `for _ in 0..num_instances`.
\* As the LLM loop, with SimpleASR::init, and the address of the actor
\* pushed to audio_recipients[model_name] and to shutdown_recipients;
\* llm_recipients stays empty.
InitASRInstance(outcome) ==
    /\ Alive
    /\ ThreadIdle
    /\ phase = "init"
    /\ modelType = "ASR"
    /\ Started < instances
    /\ LET w == Started + 1 IN
        CASE outcome = "Ok" ->
                /\ handle' = [handle EXCEPT ![w] = "loaded"]
                /\ audio' = Append(audio, w)
                /\ shutdownList' = Append(shutdownList, w)
                /\ UNCHANGED phase
          [] outcome = "InitErr" ->
                /\ phase' = "panicked"
                /\ UNCHANGED <<handle, audio, shutdownList>>
          [] outcome = "ConfigErr" ->
                /\ phase' = "failed"
                /\ UNCHANGED <<handle, audio, shutdownList>>
          [] outcome = "NoConfig" ->
                /\ phase' = "panicked_config"
                /\ UNCHANGED <<handle, audio, shutdownList>>
    /\ UNCHANGED <<think, modelType, instances, registry, sdNext, acked, destroyCalls,
                   mailbox, sdSent, requestVars, streamVars, crashed>>

\* main(): after the loop of its model type, panics if audio_recipients
\* and llm_recipients are both empty; otherwise binds and runs the HTTP
\* server (a bind error is returned by `?`).
ServerStart(bound) ==
    /\ Alive
    /\ ThreadIdle
    /\ phase = "init"
    /\ Started = instances
    /\ phase' = IF Len(audio) = 0 /\ Len(registry) = 0 THEN "panicked"
                ELSE IF bound THEN "serving" ELSE "failed"
    /\ UNCHANGED <<think, modelType, audio, instances, registry, shutdownList, sdNext,
                   acked, workerVars, requestVars, streamVars, crashed>>

\* HttpServer::run().await completes: with Ok the code after it runs, with
\* Err main returns the error (`?`) and nothing after it runs.
ServerStop(ok) ==
    /\ Alive
    /\ ThreadIdle
    /\ phase = "serving"
    /\ phase' = IF ok THEN "draining" ELSE "server_error"
    /\ UNCHANGED <<think, modelType, audio, instances, registry, shutdownList, sdNext, acked, workerVars,
                   requestVars, streamVars, crashed>>

\* join_all polls the next shutdown future for the first time:
\* addr.send(ShutdownMessages).  A delivered message is queued in the
\* worker's mailbox; a MailboxError makes `.unwrap()` panic inside the
\* spawned task, the JoinHandle yields the error and main returns it.
CoordinatorSend(delivered) ==
    /\ Alive
    /\ ThreadIdle
    /\ phase = "draining"
    /\ sdNext <= Len(shutdownList)
    /\ LET w == shutdownList[sdNext] IN
        IF delivered
           THEN /\ mailbox' = [mailbox EXCEPT ![w] = Append(@, ShutdownMsg)]
                /\ sdSent' = [sdSent EXCEPT ![w] = @ + 1]
                /\ sdNext' = sdNext + 1
                /\ UNCHANGED phase
           ELSE /\ phase' = "aborted"
                /\ UNCHANGED <<mailbox, sdSent, sdNext>>
    /\ UNCHANGED <<think, modelType, audio, instances, registry, shutdownList, acked, handle, destroyCalls,
                   requestVars, streamVars, crashed>>

\* Every shutdown future has resolved: join_all completes, the spawned
\* task is joined and main returns Ok(()).
CoordinatorJoin ==
    /\ Alive
    /\ ThreadIdle
    /\ phase = "draining"
    /\ sdNext > Len(shutdownList)
    /\ \A i \in 1..Len(shutdownList) : shutdownList[i] \in acked
    /\ phase' = "exited"
    /\ UNCHANGED <<think, modelType, audio, instances, registry, shutdownList, sdNext, acked, workerVars,
                   requestVars, streamVars, crashed>>

---------------------------------------------------------------------------
\* SpecBridge: one worker, one request, the engine free to issue any
\* callbacks.
InitBridge == InitServing(1, BOOLEAN)

NextBridge ==
    \/ SendProcess(1, 1)
    \/ ProcessMessages_handle(1, {"Ok", "Err"})
    \/ RunStart(1)
    \/ CallbackNormal(1, BridgeFragments, BridgeQuiet)
    \/ DeliveryLoop(1)
    \/ CallbackNoFragment(1, BridgeQuiet)
    \/ CallbackError(1, BridgeQuiet)
    \/ CallbackFinish(1, BridgeQuiet)
    \/ RunReturn(1)
    \/ StreamNext(1)
    \/ StreamDrop(1)

SpecBridge == InitBridge /\ [][NextBridge]_vars

---------------------------------------------------------------------------
\* SpecWorker: started workers; any holder of a Recipient may send process
\* and shutdown messages at any time; each run issues Normal and Finish
\* callbacks.
InitWorker == InitServing(NumWorkers, {FALSE})

NextWorker ==
       \/ \E r \in 1..MaxRequests, w \in 1..NumWorkers : SendProcess(r, w)
       \/ \E w \in 1..NumWorkers : SendShutdown(w)
       \/ \E w \in 1..NumWorkers : ProcessMessages_handle(w, {"Ok"})
       \/ \E w \in 1..NumWorkers : ShutdownMessages_handle(w)
       \/ \E w \in 1..NumWorkers : NativeFault(w)
       \/ \E r \in 1..MaxRequests : RunStart(r)
       \/ \E r \in 1..MaxRequests : CallbackNormal(r, MaxFragments, 0)
       \/ \E r \in 1..MaxRequests : DeliveryLoop(r)
       \/ \E r \in 1..MaxRequests : CallbackFinish(r, 0)
       \/ \E r \in 1..MaxRequests : RunReturn(r)
       \/ \E r \in 1..MaxRequests : StreamNext(r)
       \/ \E r \in 1..MaxRequests : StreamDrop(r)

SpecWorker == InitWorker /\ [][NextWorker]_vars

---------------------------------------------------------------------------
\* SpecMain: main() from the command line to its return, with the HTTP
\* handlers sending requests to registered workers while the server runs.
InitMain ==
    /\ phase = "start"
    /\ instances = 1
    /\ registry = <<>>
    /\ shutdownList = <<>>
    /\ sdNext = 1
    /\ acked = {}
    /\ think \in BOOLEAN
    /\ modelType = "none"
    /\ audio = <<>>
    /\ handle = [w \in Workers |-> "none"]
    /\ destroyCalls = [w \in Workers |-> 0]
    /\ mailbox = [w \in Workers |-> <<>>]
    /\ sdSent = [w \in Workers |-> 0]
    /\ InitRequests

\* What the config file and the init of an instance can turn out to be.
InitOutcomes == {"Ok", "InitErr", "ConfigErr", "NoConfig"}

NextMain ==
       \/ \E given \in BOOLEAN, lookup \in {"Ok", "NoModel", "ConfigErr"}, model_id \in ModelIds :
             ParseArgs(given, lookup, model_id)
       \/ \E outcome \in InitOutcomes : InitInstance(outcome)
       \/ \E outcome \in InitOutcomes : InitASRInstance(outcome)
       \/ \E bound \in BOOLEAN : ServerStart(bound)
       \/ \E ok \in BOOLEAN : ServerStop(ok)
       \/ \E delivered \in BOOLEAN : CoordinatorSend(delivered)
       \/ CoordinatorJoin
       \/ \E r \in 1..MainRequests, i \in 1..Len(registry) : SendProcess(r, registry[i])
       \/ \E w \in 1..MaxInstances : ProcessMessages_handle(w, {"Ok", "Err"})
       \/ \E w \in 1..MaxInstances : ShutdownMessages_handle(w)
       \/ \E w \in 1..MaxInstances : SimpleASR_ShutdownMessages_handle(w)
       \/ \E w \in 1..MaxInstances : NativeFault(w)
       \/ \E r \in 1..MainRequests : RunStart(r)
       \/ \E r \in 1..MainRequests : CallbackNormal(r, MaxFragments, 0)
       \/ \E r \in 1..MainRequests : DeliveryLoop(r)
       \/ \E r \in 1..MainRequests : CallbackFinish(r, 0)
       \/ \E r \in 1..MainRequests : RunReturn(r)
       \/ \E r \in 1..MainRequests : StreamNext(r)
       \/ \E r \in 1..MainRequests : StreamDrop(r)

SpecMain == InitMain /\ [][NextMain]_vars

---------------------------------------------------------------------------
\* Normal callbacks with a payload, issued before the first Finish, that
\* have returned.
Completed(r) == IF run[r] = "sending" THEN nNormal[r] - 1 ELSE nNormal[r]

\* C1 (as amended): the fragments the consumer has read are, in order and
\* without gap or repetition, the payloads of the Normal callbacks issued
\* before the first Finish callback; at end-of-stream it has read all of
\* them.
C1_FragmentsInOrder ==
    \A r \in Requests :
        /\ read[r] = Upto(r, Len(read[r]))
        /\ Len(read[r]) <= nNormal[r]
        /\ eos[r] => read[r] = Upto(r, nNormal[r])

\* C1 witness: a stream read to its end, with fragments before Finish and
\* a Normal callback after it.
C1_Witness ==
    \E r \in Requests :
        eos[r] /\ Len(read[r]) >= 3 /\ late[r] > 0 /\ run[r] = "returned"

\* C1 as stated: at the end the consumer has read the payloads of all
\* Normal callbacks of the call.
C1_AllNormalPayloads ==
    \A r \in Requests :
        (eos[r] /\ run[r] = "returned") => read[r] = Upto(r, Issued(r))

\* C2: while the consumer holds the stream, every fragment whose Normal
\* callback has returned has been accepted by the channel exactly once:
\* read and queued fragments together are the fragments of the returned
\* callbacks, however full the channel was.
C2_NoLossUnderBackpressure ==
    \A r \in Requests :
        rx[r] = "open" => read[r] \o buf[r] = Upto(r, Completed(r))

\* C2 witness: the consumer has read nothing, the channel holds 64
\* fragments and the callback of the 65th is in the delivery loop.
C2_Witness ==
    \E r \in Requests :
        /\ rx[r] = "open"
        /\ read[r] = <<>>
        /\ Len(buf[r]) = ChannelCapacity
        /\ run[r] = "sending"

\* C3: once the receiver is dropped, a callback in the delivery loop can
\* take a step that changes something, i.e. it does not retry forever.
C3_LoopLeavesClosedChannel ==
    \A r \in Requests :
        (run[r] = "sending" /\ rx[r] = "dropped") => ENABLED <<DeliveryLoop(r)>>_vars

\* C4 as stated: of two requests sent to the same worker, the engine run of
\* one is in flight only when the run of the other is not, and if the other
\* run has been and gone its stream has reached Finish (or Error).
C4_SecondWaitsForFinish ==
    \A q, r \in Requests :
        (q # r /\ target[q] # 0 /\ target[q] = target[r] /\ InFlight(r)) =>
            /\ ~InFlight(q)
            /\ run[q] = "returned" => (finished[q] \/ errored[q])

\* C4, amended: no two engine runs are in flight at the same time, on the
\* handle of one worker or on those of different workers: a run is entered
\* only when every run entered before it has returned.
C4_OneRunPerWorker ==
    /\ \A w \in Workers : Cardinality(RunsOn(w)) <= 1
    /\ \A q, r \in Requests : (InFlight(q) /\ InFlight(r)) => q = r

\* The run of a second request to the same worker is in flight after the
\* run of the first returned without a Finish callback.
C4_Witness ==
    \E q, r \in Requests :
        /\ q # r /\ target[q] = target[r]
        /\ run[q] = "returned" /\ ~finished[q]
        /\ InFlight(r) /\ nNormal[r] >= 1

\* C5: a process request handled after the worker's handle was destroyed
\* gets an error result and submits no run.
C5_RejectAfterShutdown ==
    [][\A r \in Requests :
          (reply[r] = "none" /\ reply'[r] # "none" /\ handle[target[r]] = "destroyed")
              => (reply'[r] = "Err" /\ run'[r] = "none")]_vars

\* C6: the shutdown handler destroys the handle only when the worker has
\* no engine run outstanding: none that a handled process request has
\* submitted and that has neither returned nor signalled Finish or Error.
C6_DestroyOnlyWhenReady ==
    [][\A w \in Workers :
          (handle[w] = "loaded" /\ handle'[w] = "destroyed") =>
              \A r \in Requests :
                  (target[r] = w /\ run[r] \in {"spawned", "running", "sending"})
                      => (finished[r] \/ errored[r])]_vars

\* C7: a shutdown request that fails does not abort the coordinator: the
\* process never ends with the coordinator dead on the failed request, the
\* requests behind it unsent and the exit turned into an error.
C7_OtherWorkersStillShutDown == phase # "aborted"

\* C8: when the process has ended after serving, every registered worker
\* has acknowledged its shutdown and its handle was destroyed exactly once.
C8_ExitAfterAllAcknowledged ==
    phase \in {"exited", "aborted", "server_error"} =>
        \A i \in 1..Len(Pool) :
            Pool[i] \in acked /\ destroyCalls[Pool[i]] = 1

\* C9: after a Finish callback the stream holds exactly the fragments
\* issued before it, the consumer's poll never pends (it yields the queued
\* fragments and then end-of-stream), and what it has read at
\* end-of-stream is exactly those fragments.
C9_FinishClosesStream ==
    \A r \in Requests :
        finished[r] =>
            /\ rx[r] = "open" =>
                  /\ read[r] \o buf[r] = Upto(r, nNormal[r])
                  /\ poll_next(buf[r], tx[r]) # "Pending"
            /\ eos[r] => read[r] = Upto(r, nNormal[r])

\* C9 witness: end-of-stream observed after a Finish that was followed by
\* another Normal callback.
C9_Witness ==
    \E r \in Requests :
        finished[r] /\ late[r] > 0 /\ eos[r] /\ Len(read[r]) >= 2

\* C10: after an Error callback no sender of the stream is left, so the
\* consumer reaches end-of-stream without a Finish callback.
C10_ErrorClosesStream ==
    \A r \in Requests :
        (errored[r] /\ ~finished[r]) => tx[r] # "held"

---------------------------------------------------------------------------
\* Concurrent requests and their streams: workers that serve requests from
\* any holder of their Recipient, each with its engine call and consumer.
\* The workers start out identical, so a request goes to a worker already
\* in use or to the lowest-numbered unused one.
InitStreams == InitServing(NumWorkers, {FALSE})

WorkersInUse == {w \in Workers : \E r \in Requests : target[r] = w}

NextStreams ==
       \/ \E r \in 1..MaxRequests, w \in 1..NumWorkers :
             w <= Cardinality(WorkersInUse) + 1 /\ SendProcess(r, w)
       \/ \E w \in 1..NumWorkers : ProcessMessages_handle(w, {"Ok"})
       \/ \E r \in 1..MaxRequests : RunStart(r)
       \/ \E r \in 1..MaxRequests : CallbackNormal(r, MaxFragments, 0)
       \/ \E r \in 1..MaxRequests : DeliveryLoop(r)
       \/ \E r \in 1..MaxRequests : CallbackFinish(r, 0)
       \/ \E r \in 1..MaxRequests : RunReturn(r)
       \/ \E r \in 1..MaxRequests : StreamNext(r)
       \/ \E r \in 1..MaxRequests : StreamDrop(r)

SpecStreams == InitStreams /\ [][NextStreams]_vars

---------------------------------------------------------------------------
\* The HTTP server has been started (HttpServer::run was reached).
Served == phase \in {"serving", "draining", "exited", "aborted", "server_error"}

\* C11: whenever the HTTP server has started serving, the registry (the
\* LLM pool and the audio pool together) holds at least one worker; every
\* registered worker is one whose init returned Ok (its handle was loaded);
\* and no requested worker is missing, since an init failure panics main
\* before the server is bound.
C11_RegistryNonEmptyAndInitialised ==
    /\ \A i \in 1..Len(Pool) : handle[Pool[i]] # "none"
    /\ Served => /\ Len(Pool) >= 1
                 /\ \A w \in 1..instances : handle[w] # "none"
    /\ phase \in {"panicked", "panicked_args", "panicked_lookup", "panicked_config"}
          => \A r \in Requests : target[r] = 0

\* Serving with the worker registered and a request sent to it.
C11_Witness ==
    /\ phase = "serving"
    /\ Len(registry) = 1
    /\ \E r \in Requests : target[r] = registry[1]

C14_ReturnsImmediately ==
    /\ [](\A w \in Workers :
            (Alive /\ ThreadIdle /\ mailbox[w] # <<>> /\ Head(mailbox[w]).kind = "Process")
                => ENABLED <<ProcessMessages_handle(w, {"Ok"})>>_vars)
    /\ [][\A r \in Requests :
            (reply[r] = "none" /\ reply'[r] # "none") =>
                /\ reply'[r] = "Ok"
                /\ rx'[r] = "open"
                /\ run'[r] = "spawned"
                /\ nNormal'[r] = 0
                /\ buf'[r] = <<>>
                /\ ~finished'[r]]_vars

\* The caller of a second request holds its stream, the engine call of that
\* request not yet entered, after the call of an earlier request on the same
\* worker delivered a fragment and returned.
C14_Witness ==
    \E q, r \in Requests :
        /\ q # r
        /\ target[q] = target[r]
        /\ run[q] = "returned" /\ nNormal[q] >= 1
        /\ reply[r] = "Ok" /\ rx[r] = "open" /\ run[r] = "spawned"

\* C15 as stated: when apply_chat_template fails the handler still answers
\* Ok with a stream and an engine call, and the input of that call is the
\* empty prompt.
C15_EmptyPromptOnTemplateFailure ==
    \A r \in Requests :
        template[r] = "Err" =>
            /\ reply[r] = "Ok"
            /\ rx[r] # "absent"
            /\ run[r] # "none"
            /\ prompt[r] = <<>>

\* C15, amended: when apply_chat_template fails the handler still answers Ok
\* with a stream and an engine call, and the input of that call holds no
\* rendered text: it is empty when config.think is set, and otherwise it is
\* exactly the stop-thinking marker the handler appends.
C15_NoRenderedTextOnTemplateFailure ==
    \A r \in Requests :
        template[r] = "Err" =>
            /\ reply[r] = "Ok"
            /\ rx[r] # "absent"
            /\ run[r] # "none"
            /\ prompt[r] = IF think THEN <<>> ELSE StopThinking

\* The engine call of a request whose template failed has been entered with
\* the marker as its whole input.
C15_Witness ==
    \E r \in Requests :
        /\ template[r] = "Err"
        /\ ~think
        /\ InFlight(r)
        /\ prompt[r] = StopThinking

\* C16: once the server has started with num_instances = k, the registry
\* holds exactly k pairwise distinct workers, the list of workers to shut
\* down holds the same workers once each, and the coordinator has sent no
\* worker more than one shutdown request.
C16_RegisteredIsShutdownSet ==
    Served =>
        /\ Len(Pool) = instances
        /\ \A i, j \in 1..Len(Pool) : Pool[i] = Pool[j] => i = j
        /\ shutdownList = Pool
        /\ \A w \in Workers :
              /\ sdSent[w] <= 1
              /\ sdSent[w] = 1 => \E i \in 1..Len(Pool) : Pool[i] = w

\* The coordinator has sent its shutdown request to the registered worker.
C16_Witness ==
    /\ phase = "draining"
    /\ instances = 1
    /\ Len(registry) = 1
    /\ sdSent[registry[1]] = 1

\* The requests whose engine call issued the fragments in sequence q.
Origins(q) == {q[i][1] : i \in 1..Len(q)}

\* C17: streams are isolated.  Whatever the interleaving of the requests,
\* the fragments queued in or read from the stream of request r all come
\* from the engine call of r, and they are exactly the fragments that call
\* has delivered; the sender of r is taken only by a Finish of r's own
\* call, and r's stream ends only when r's own sender is gone.
C17_StreamsIsolated ==
    \A r \in Requests :
        /\ Origins(buf[r]) \subseteq {r}
        /\ Origins(read[r]) \subseteq {r}
        /\ rx[r] = "open" => read[r] \o buf[r] = Upto(r, Completed(r))
        /\ tx[r] = "taken" => finished[r]
        /\ eos[r] => tx[r] \in {"taken", "dropped"}

\* Two requests on the same worker: the first call has signalled Finish and
\* its stream has ended, the stream of the second is still open and its
\* consumer has read a fragment.
C17_Witness ==
    \E q, r \in Requests :
        /\ q # r
        /\ target[q] = target[r]
        /\ finished[q] /\ eos[q] /\ read[q] # <<>>
        /\ ~finished[r] /\ tx[r] = "held" /\ rx[r] = "open" /\ ~eos[r]
        /\ read[r] # <<>>

\* C18: Finish does not truncate.  The first Finish callback leaves the
\* queued fragments, what the consumer has read and its end-of-stream flag
\* as they were; from then on, while the consumer keeps the stream, the
\* fragments read followed by those queued stay the same sequence (reading
\* only moves the next one over); and the step in which the consumer gets
\* end-of-stream starts with an empty queue.
C18_FinishDoesNotTruncate ==
    [][\A r \in Requests :
          /\ (~finished[r] /\ finished'[r]) =>
                (buf'[r] = buf[r] /\ read'[r] = read[r] /\ eos'[r] = eos[r])
          /\ (finished[r] /\ rx[r] = "open" /\ rx'[r] = "open") =>
                read'[r] \o buf'[r] = read[r] \o buf[r]
          /\ (~eos[r] /\ eos'[r]) =>
                (buf[r] = <<>> /\ read'[r] = read[r])]_vars

\* Finish has been issued after 64 fragments; the consumer has read the
\* first and the other 63 are still queued.
C18_Witness ==
    \E r \in Requests :
        /\ finished[r] /\ rx[r] = "open" /\ ~eos[r]
        /\ read[r] = <<Fragment(r, 1)>>
        /\ Len(buf[r]) = ChannelCapacity - 1
        /\ nNormal[r] = ChannelCapacity

\* C19: a callback that carries no fragment (Waiting, GetLastHiddenLayer,
\* Normal without a result) changes nothing of the stream: the sender stays
\* as it was (a held sender stays held, so the stream stays open), the
\* queued fragments, the fragments read and the end-of-stream flag are
\* unchanged, and the engine call goes on.
C19_NoFragmentCallbacksAreNoOps ==
    [][\A r \in Requests :
          (/\ quiet'[r] = quiet[r] + 1
           /\ errored'[r] = errored[r]
           /\ finished'[r] = finished[r]
           /\ ~finished[r]) =>
                /\ tx'[r] = tx[r]
                /\ rx'[r] = rx[r]
                /\ buf'[r] = buf[r]
                /\ read'[r] = read[r]
                /\ eos'[r] = eos[r]
                /\ run'[r] = run[r]
                /\ nNormal'[r] = nNormal[r]]_vars

\* Two callbacks without a fragment were issued while fragments were
\* queued: the sender is still held, the stream open, the fragments queued.
C19_Witness ==
    \E r \in Requests :
        /\ quiet[r] = 2 /\ ~errored[r] /\ ~finished[r]
        /\ tx[r] = "held" /\ rx[r] = "open" /\ ~eos[r]
        /\ Len(buf[r]) >= 2
        /\ read[r] \o buf[r] = Upto(r, nNormal[r])

\* C20: the fragments delivered to a request's channel and not yet read by
\* the consumer never number more than the channel's capacity of 64.
C20_BufferBounded ==
    \A r \in Requests : Len(buf[r]) <= ChannelCapacity

\* The engine has issued 65 fragments and the consumer has read one: the
\* channel is at capacity again.
C20_Witness ==
    \E r \in Requests :
        /\ Len(buf[r]) = ChannelCapacity
        /\ Len(read[r]) = 1
        /\ nNormal[r] = ChannelCapacity + 1
        /\ run[r] = "running"

====
